---- MODULE Spec2Model ----
(***************************************************************************)
(* A model of the x264 bridge (pkg/codec/x264/bridge.h): the Encoder       *)
(* session, enc_new, apply_target_bitrate, enc_encode and enc_close, with  *)
(* the x264 engine as a nondeterministic environment.                      *)
(*                                                                         *)
(* Pointers are pairs <<region, index>>.  Every handler is a pure operator *)
(* from the session's memory and the call's inputs (the caller's arguments *)
(* and the values the engine returns) to the memory after the call, the    *)
(* value returned, the write to *rc and the trace of the external calls    *)
(* the handler made, in order.  The actions apply the handlers to the      *)
(* state and fold the trace into the heap.                                 *)
(***************************************************************************)
EXTENDS Integers, Sequences, FiniteSets, TLC

----------------------------------------------------------------------------
(* Program constants *)

ERR_DEFAULT_PRESET == -1
ERR_APPLY_PROFILE == -2
ERR_ALLOC_PICTURE == -3
ERR_OPEN_ENGINE == -4
ERR_ENCODE == -5
ERR_BITRATE_RECONFIG == -6

RC_MARGIN == 10000

\* x264.h values the bridge uses by name
X264_TYPE_AUTO == 0
X264_TYPE_IDR == 1
X264_RC_CRF == 1
X264_RC_ABR == 2
X264_CSP_I420 == 2
X264_CSP_I444 == 12

----------------------------------------------------------------------------
(* Bounds of the model *)

\* engine encode invocations per session
MaxEncodes == 2
\* engine reconfiguration invocations per session
MaxReconfigs == 2

----------------------------------------------------------------------------
(* Pointers and input sets *)

NULL == <<"NULL", 0>>
EPtr == <<"Encoder", 0>>
HPtr == <<"x264_t", 0>>
\* plane i of the storage x264_picture_alloc allocates
PicPlane(i) == <<"picture", i>>
\* the engine's output queue as it is after the n-th encode invocation
NalPayload(n) == <<"nal", n>>

\* caller frames: three plane buffers each
Frames ==
  { [y |-> <<"y", f>>, cb |-> <<"cb", f>>, cr |-> <<"cr", f>>] : f \in {1, 2} }

KnownPresets == {"veryfast", "medium"}
Presets == KnownPresets \cup {"turbo-ultra"}

\* what malloc'ed memory may hold where the code never writes it
GarbageInts == {-1, 0, 1}

\* x264_param_t as x264_param_default_preset leaves it, for a known preset;
\* only the fields the bridge reads or writes.  The defaults are the engine's
\* to choose: two presets that differ in them stand for that.
PresetSeed(preset) ==
  [ i_csp |-> X264_CSP_I420, i_width |-> 0, i_height |-> 0,
    i_fps_num |-> 25, i_fps_den |-> IF preset = "medium" THEN 1 ELSE 2,
    i_keyint_max |-> 250,
    i_rc_method |-> X264_RC_CRF, i_bitrate |-> 0,
    f_rate_tolerance |-> "1.0",
    i_vbv_max_bitrate |-> 0, i_vbv_buffer_size |-> 0,
    f_vbv_buffer_init |-> "0.9",
    b_repeat_headers |-> IF preset = "medium" THEN 1 ELSE 0,
    b_annexb |-> IF preset = "medium" THEN 1 ELSE 0 ]

\* the caller's x264_param_t argument of enc_new (StreamParameters)
StreamParams ==
  { [PresetSeed("medium") EXCEPT
       !.i_csp = c, !.i_width = g[1], !.i_height = g[2],
       !.i_fps_num = 30, !.i_keyint_max = 60,
       !.i_bitrate = 2000, !.i_vbv_max_bitrate = 2500,
       !.i_vbv_buffer_size = 2500] :
      c \in {X264_CSP_I420, X264_CSP_I444}, g \in {<<1280, 720>>, <<640, 480>>} }

\* target bitrates a caller asks for, bits/second
TargetBitrates == {-1500, 0, 1999, 2000000, 2000999, 3000000}

\* values the engine's entry points return
StatusRets == {-1, 0}
ReconfigRets == {-6, -1, 0}
FrameSizes == {-1, 0, 7}

----------------------------------------------------------------------------
(* Session memory *)

BlankPic == [ i_type |-> X264_TYPE_AUTO, i_csp |-> 0, i_stride |-> 0,
              plane |-> <<NULL, NULL, NULL>> ]

\* the Encoder struct where no session memory is live
NoEncoder ==
  [ h |-> NULL, pic_in |-> BlankPic, param |-> PresetSeed("medium"),
    force_key_frame |-> 0 ]

NoSlice == [ data |-> NULL, data_len |-> 0 ]

\* one external call of a handler
Ev(fn, ret) == [ fn |-> fn, ret |-> ret ]

VARIABLES
  session,   \* the caller's Encoder *: NULL or EPtr
  mem,       \* the Encoder struct session points to
  heap,      \* status of each resource: "none", "live", "released", "invalid"
  engine,    \* the engine's side: accepted configuration, last picture, counts
  rc,        \* the caller's result-code variable
  stream,    \* the StreamParameters the session was opened with
  call,      \* the last call: operation, inputs, result, external calls
  units,     \* the data pointers of the units encode has returned so far
  pair,      \* two sessions operated in any interleaving (SpecPair)
  race       \* two encode calls on one session, statement by statement (SpecRace)

vars == << session, mem, heap, engine, rc, stream, call, units, pair, race >>

----------------------------------------------------------------------------
(* The heap: each external call of a trace acts on the resource it names *)

Acquire(st) == IF st = "none" THEN "live" ELSE "invalid"
Release(st) == IF st = "live" THEN "released" ELSE "invalid"
Use(st) == IF st = "live" THEN "live" ELSE "invalid"

HeapStep(hp, ev) ==
  CASE ev.fn = "malloc" -> [hp EXCEPT !.e = Acquire(@)]
    [] ev.fn = "free(e)" -> [hp EXCEPT !.e = Release(@)]
    [] ev.fn = "x264_param_default_preset" -> [hp EXCEPT !.preset = Use(@)]
    [] ev.fn = "free(preset)" -> [hp EXCEPT !.preset = Release(@)]
    [] ev.fn = "x264_picture_alloc" /\ ev.ret >= 0 -> [hp EXCEPT !.pic = Acquire(@)]
    [] ev.fn = "x264_picture_clean" -> [hp EXCEPT !.pic = Release(@)]
    [] ev.fn = "x264_encoder_open" /\ ev.ret # 0 -> [hp EXCEPT !.h = Acquire(@)]
    [] ev.fn = "x264_encoder_encode" -> [hp EXCEPT !.h = Use(@)]
    [] ev.fn = "x264_encoder_reconfig" -> [hp EXCEPT !.h = Use(@)]
    [] ev.fn = "x264_encoder_close" -> [hp EXCEPT !.h = Release(@)]
    [] OTHER -> hp

RECURSIVE HeapAfter(_, _)
HeapAfter(hp, tr) ==
  IF tr = << >> THEN hp ELSE HeapAfter(HeapStep(hp, Head(tr)), Tail(tr))

\* how many times a handler called fn
RECURSIVE Calls(_, _)
Calls(tr, fn) ==
  IF tr = << >> THEN 0
  ELSE (IF Head(tr).fn = fn THEN 1 ELSE 0) + Calls(Tail(tr), fn)

----------------------------------------------------------------------------
(* The engine's entry points, as far as the bridge observes them *)

\* x264_param_default_preset(&e->param, preset, "zerolatency")
x264_param_default_preset(preset) ==
  IF preset \in KnownPresets
    THEN [ ret |-> 0, param |-> PresetSeed(preset) ]
    ELSE [ ret |-> -1, param |-> PresetSeed("medium") ]

\* x264_picture_alloc(&pic_in, i_csp, i_width, i_height), when it succeeds
x264_picture_alloc(i_csp, i_width, i_height) ==
  [ i_type |-> X264_TYPE_AUTO, i_csp |-> i_csp, i_stride |-> i_width,
    plane |-> <<PicPlane(0), PicPlane(1), PicPlane(2)>> ]

----------------------------------------------------------------------------
(* enc_new *)

\* mutant of NewFail: the fail label returns without free(e)
NewFail_Leak(code, trace) ==
  [ e |-> NULL, mem |-> NoEncoder, rc_written |-> TRUE, rc_value |-> code,
    trace |-> trace ]

\* the result of a failing enc_new: *rc = code; goto fail
NewFail(code, trace) ==
  [ e |-> NULL, mem |-> NoEncoder, rc_written |-> TRUE, rc_value |-> code,
    trace |-> trace \o << Ev("free(e)", 0) >> ]

\* mutant of ConfigureParams: width and height exchanged
ConfigureParams_Swapped(seeded, param) ==
  [ seeded EXCEPT
      !.i_csp = param.i_csp,
      !.i_width = param.i_height,
      !.i_height = param.i_width,
      !.i_fps_num = param.i_fps_num,
      !.i_fps_den = 1,
      !.i_keyint_max = param.i_keyint_max,
      !.i_rc_method = X264_RC_ABR,
      !.i_bitrate = param.i_bitrate,
      !.i_vbv_max_bitrate = param.i_vbv_max_bitrate,
      !.i_vbv_buffer_size = param.i_vbv_buffer_size,
      !.b_repeat_headers = 1,
      !.b_annexb = 1 ]

\* mutant of ConfigureParams: the streaming flags are left as the preset
\* seeded them
ConfigureParams_NoStreamingFlags(seeded, param) ==
  [ seeded EXCEPT
      !.i_csp = param.i_csp,
      !.i_width = param.i_width,
      !.i_height = param.i_height,
      !.i_fps_num = param.i_fps_num,
      !.i_fps_den = 1,
      !.i_keyint_max = param.i_keyint_max,
      !.i_rc_method = X264_RC_ABR,
      !.i_bitrate = param.i_bitrate,
      !.i_vbv_max_bitrate = param.i_vbv_max_bitrate,
      !.i_vbv_buffer_size = param.i_vbv_buffer_size ]

\* lines 36-50: the caller's parameters over the preset's
ConfigureParams(seeded, param) ==
  [ seeded EXCEPT
      !.i_csp = param.i_csp,
      !.i_width = param.i_width,
      !.i_height = param.i_height,
      !.i_fps_num = param.i_fps_num,
      !.i_fps_den = 1,
      !.i_keyint_max = param.i_keyint_max,
      !.i_rc_method = X264_RC_ABR,
      !.i_bitrate = param.i_bitrate,
      !.i_vbv_max_bitrate = param.i_vbv_max_bitrate,
      !.i_vbv_buffer_size = param.i_vbv_buffer_size,
      !.b_repeat_headers = 1,
      !.b_annexb = 1 ]

\* mutant of enc_new: the picture is allocated before the profile is applied
enc_new_AllocBeforeProfile(param, preset, garbage, profile_ret, alloc_ret, h) ==
  LET seeded == x264_param_default_preset(preset)
      t1 == << Ev("malloc", 1), Ev("x264_param_default_preset", seeded.ret),
               Ev("free(preset)", 0) >>
      eparam == ConfigureParams(seeded.param, param)
      pic_in == x264_picture_alloc(param.i_csp, param.i_width, param.i_height)
      t2 == t1 \o << Ev("x264_picture_alloc", alloc_ret) >>
      t3 == t2 \o << Ev("x264_picture_clean", 0),
                     Ev("x264_param_apply_profile", profile_ret) >>
      t4 == t3 \o << Ev("x264_encoder_open", IF h = NULL THEN 0 ELSE 1) >>
  IN  IF seeded.ret < 0 THEN NewFail(ERR_DEFAULT_PRESET, t1)
      ELSE IF alloc_ret < 0 THEN NewFail(ERR_ALLOC_PICTURE, t2)
      ELSE IF profile_ret < 0 THEN NewFail(ERR_APPLY_PROFILE, t3)
      ELSE IF h = NULL THEN NewFail(ERR_OPEN_ENGINE, t4)
      ELSE [ e |-> EPtr,
             mem |-> [ h |-> h, pic_in |-> pic_in, param |-> eparam,
                       force_key_frame |-> garbage ],
             rc_written |-> FALSE, rc_value |-> 0, trace |-> t4 ]

\* mutant of enc_new: the preset is not freed when it is not recognized
enc_new_PresetKeptOnFailure(param, preset, garbage, profile_ret, alloc_ret, h) ==
  LET seeded == x264_param_default_preset(preset)
      t0 == << Ev("malloc", 1), Ev("x264_param_default_preset", seeded.ret) >>
      t1 == t0 \o << Ev("free(preset)", 0) >>
      eparam == ConfigureParams(seeded.param, param)
      t2 == t1 \o << Ev("x264_param_apply_profile", profile_ret) >>
      pic_in == x264_picture_alloc(param.i_csp, param.i_width, param.i_height)
      t3 == t2 \o << Ev("x264_picture_alloc", alloc_ret) >>
      t4 == t3 \o << Ev("x264_picture_clean", 0),
                     Ev("x264_encoder_open", IF h = NULL THEN 0 ELSE 1) >>
  IN  IF seeded.ret < 0 THEN NewFail(ERR_DEFAULT_PRESET, t0)
      ELSE IF profile_ret < 0 THEN NewFail(ERR_APPLY_PROFILE, t2)
      ELSE IF alloc_ret < 0 THEN NewFail(ERR_ALLOC_PICTURE, t3)
      ELSE IF h = NULL THEN NewFail(ERR_OPEN_ENGINE, t4)
      ELSE [ e |-> EPtr,
             mem |-> [ h |-> h, pic_in |-> pic_in, param |-> eparam,
                       force_key_frame |-> garbage ],
             rc_written |-> FALSE, rc_value |-> 0, trace |-> t4 ]

\* garbage: what the malloc'ed struct holds in force_key_frame, which enc_new
\* never writes; profile_ret, alloc_ret, h: what the engine returns
\* (malloc is taken to succeed: line 28 dereferences e unchecked)
enc_new(param, preset, garbage, profile_ret, alloc_ret, h) ==
  LET seeded == x264_param_default_preset(preset)
      t1 == << Ev("malloc", 1), Ev("x264_param_default_preset", seeded.ret),
               Ev("free(preset)", 0) >>
      eparam == ConfigureParams(seeded.param, param)
      t2 == t1 \o << Ev("x264_param_apply_profile", profile_ret) >>
      pic_in == x264_picture_alloc(param.i_csp, param.i_width, param.i_height)
      t3 == t2 \o << Ev("x264_picture_alloc", alloc_ret) >>
      t4 == t3 \o << Ev("x264_picture_clean", 0),
                     Ev("x264_encoder_open", IF h = NULL THEN 0 ELSE 1) >>
  IN  IF seeded.ret < 0 THEN NewFail(ERR_DEFAULT_PRESET, t1)
      ELSE IF profile_ret < 0 THEN NewFail(ERR_APPLY_PROFILE, t2)
      ELSE IF alloc_ret < 0 THEN NewFail(ERR_ALLOC_PICTURE, t3)
      ELSE IF h = NULL THEN NewFail(ERR_OPEN_ENGINE, t4)
      ELSE [ e |-> EPtr,
             mem |-> [ h |-> h, pic_in |-> pic_in, param |-> eparam,
                       force_key_frame |-> garbage ],
             rc_written |-> FALSE, rc_value |-> 0, trace |-> t4 ]

----------------------------------------------------------------------------
(* apply_target_bitrate *)

\* C's int division truncates toward zero
CDiv(a, b) == IF a >= 0 THEN a \div b ELSE -((-a) \div b)

\* line 84
target_encoder_bitrate(target_bitrate) == CDiv(target_bitrate, 1000)

\* mutant of BitrateUnchanged: the test for too small a target is missing
BitrateUnchanged_EqualOnly(e, k) == e.param.i_bitrate = k

\* line 85
BitrateUnchanged(e, k) == e.param.i_bitrate = k \/ k <= 1

\* line 91
VbvMaxBitrate(k) == k + CDiv(RC_MARGIN, 2)

\* mutant of apply_target_bitrate: the configuration is restored when the
\* engine rejects it
apply_target_bitrate_Rollback(e, target_bitrate, reconfig_ret) ==
  LET k == target_encoder_bitrate(target_bitrate)
      p == [ e.param EXCEPT
               !.i_bitrate = k,
               !.f_rate_tolerance = "0.1",
               !.i_vbv_max_bitrate = VbvMaxBitrate(k),
               !.i_vbv_buffer_size = VbvMaxBitrate(k),
               !.f_vbv_buffer_init = "0.6" ]
  IN  IF BitrateUnchanged(e, k)
        THEN [ mem |-> e, ret |-> 0, trace |-> << >> ]
        ELSE [ mem |-> IF reconfig_ret < 0 THEN e ELSE [e EXCEPT !.param = p],
               ret |-> reconfig_ret,
               trace |-> << Ev("x264_encoder_reconfig", reconfig_ret) >> ]

\* reconfig_ret: what x264_encoder_reconfig returns, if it is called
apply_target_bitrate(e, target_bitrate, reconfig_ret) ==
  LET k == target_encoder_bitrate(target_bitrate)
      p == [ e.param EXCEPT
               !.i_bitrate = k,
               !.f_rate_tolerance = "0.1",
               !.i_vbv_max_bitrate = VbvMaxBitrate(k),
               !.i_vbv_buffer_size = VbvMaxBitrate(k),
               !.f_vbv_buffer_init = "0.6" ]
  IN  IF BitrateUnchanged(e, k)
        THEN [ mem |-> e, ret |-> 0, trace |-> << >> ]
        ELSE [ mem |-> [e EXCEPT !.param = p], ret |-> reconfig_ret,
               trace |-> << Ev("x264_encoder_reconfig", reconfig_ret) >> ]

----------------------------------------------------------------------------
(* enc_encode *)

\* lines 106-110
FrameType(force_key_frame) ==
  IF force_key_frame # 0 THEN X264_TYPE_IDR ELSE X264_TYPE_AUTO

\* mutant of EncodeResult: only a negative frame size is a failure
EncodeResult_NegativeOnly(frame_size, payload) ==
  IF frame_size < 0
    THEN [ s |-> [ data |-> NULL, data_len |-> frame_size ],
           rc_written |-> TRUE, rc_value |-> ERR_ENCODE ]
    ELSE [ s |-> [ data |-> payload, data_len |-> frame_size ],
           rc_written |-> FALSE, rc_value |-> 0 ]

\* mutant of EncodeResult: *rc is set to 0 when the frame was encoded
EncodeResult_WritesSuccess(frame_size, payload) ==
  IF frame_size <= 0
    THEN [ s |-> [ data |-> NULL, data_len |-> frame_size ],
           rc_written |-> TRUE, rc_value |-> ERR_ENCODE ]
    ELSE [ s |-> [ data |-> payload, data_len |-> frame_size ],
           rc_written |-> TRUE, rc_value |-> 0 ]

\* mutant of EncodeResult: the unit's data is a copy of the payload, in
\* memory of its own
EncodeResult_Copy(frame_size, payload) ==
  IF frame_size <= 0
    THEN [ s |-> [ data |-> NULL, data_len |-> frame_size ],
           rc_written |-> TRUE, rc_value |-> ERR_ENCODE ]
    ELSE [ s |-> [ data |-> <<"copy", payload[2]>>, data_len |-> frame_size ],
           rc_written |-> FALSE, rc_value |-> 0 ]

\* lines 114-122: the Slice returned and the write to *rc
EncodeResult(frame_size, payload) ==
  IF frame_size <= 0
    THEN [ s |-> [ data |-> NULL, data_len |-> frame_size ],
           rc_written |-> TRUE, rc_value |-> ERR_ENCODE ]
    ELSE [ s |-> [ data |-> payload, data_len |-> frame_size ],
           rc_written |-> FALSE, rc_value |-> 0 ]

\* mutant of enc_encode: force_key_frame is cleared after the failure return
enc_encode_ClearOnSuccess(e, y, cb, cr, frame_size, payload) ==
  LET pic == [ e.pic_in EXCEPT !.plane = <<y, cb, cr>>,
                               !.i_type = FrameType(e.force_key_frame) ]
      res == EncodeResult(frame_size, payload)
  IN  [ mem |-> [ e EXCEPT !.pic_in = pic,
                           !.force_key_frame = IF frame_size <= 0 THEN @ ELSE 0 ],
        pic |-> pic,
        s |-> res.s, rc_written |-> res.rc_written, rc_value |-> res.rc_value,
        trace |-> << Ev("x264_encoder_encode", frame_size) >> ]

\* mutant of enc_encode: the engine is closed when a frame fails
enc_encode_CloseOnFailure(e, y, cb, cr, frame_size, payload) ==
  LET pic == [ e.pic_in EXCEPT !.plane = <<y, cb, cr>>,
                               !.i_type = FrameType(e.force_key_frame) ]
      res == EncodeResult(frame_size, payload)
  IN  [ mem |-> [ e EXCEPT !.pic_in = pic, !.force_key_frame = 0,
                           !.h = IF frame_size <= 0 THEN NULL ELSE @ ],
        pic |-> pic,
        s |-> res.s, rc_written |-> res.rc_written, rc_value |-> res.rc_value,
        trace |-> << Ev("x264_encoder_encode", frame_size) >>
                  \o (IF frame_size <= 0
                        THEN << Ev("x264_encoder_close", 0) >> ELSE << >>) ]

\* mutant of enc_encode: only the luma plane is rebound
enc_encode_BindLumaOnly(e, y, cb, cr, frame_size, payload) ==
  LET pic == [ e.pic_in EXCEPT !.plane[1] = y,
                               !.i_type = FrameType(e.force_key_frame) ]
      res == EncodeResult(frame_size, payload)
  IN  [ mem |-> [ e EXCEPT !.pic_in = pic, !.force_key_frame = 0 ],
        pic |-> pic,
        s |-> res.s, rc_written |-> res.rc_written, rc_value |-> res.rc_value,
        trace |-> << Ev("x264_encoder_encode", frame_size) >> ]

\* frame_size, payload: what x264_encoder_encode returns and the first NAL's
\* p_payload; pic: the picture the engine is given
enc_encode(e, y, cb, cr, frame_size, payload) ==
  LET pic == [ e.pic_in EXCEPT !.plane = <<y, cb, cr>>,
                               !.i_type = FrameType(e.force_key_frame) ]
      res == EncodeResult(frame_size, payload)
  IN  [ mem |-> [ e EXCEPT !.pic_in = pic, !.force_key_frame = 0 ],
        pic |-> pic,
        s |-> res.s, rc_written |-> res.rc_written, rc_value |-> res.rc_value,
        trace |-> << Ev("x264_encoder_encode", frame_size) >> ]

----------------------------------------------------------------------------
(* enc_close *)

\* mutant of enc_close: the picture is cleaned again at close
enc_close_CleansPicture(e) ==
  [ mem |-> NoEncoder,
    trace |-> << Ev("x264_picture_clean", 0), Ev("x264_encoder_close", 0),
                 Ev("free(e)", 0) >> ]

enc_close(e) ==
  [ mem |-> NoEncoder,
    trace |-> << Ev("x264_encoder_close", 0), Ev("free(e)", 0) >> ]

----------------------------------------------------------------------------
(* The state machine: one session, from before enc_new to after enc_close *)

HeapStart == [ e |-> "none", preset |-> "live", pic |-> "none", h |-> "none" ]

EngineStart ==
  [ param |-> PresetSeed("medium"), pushed |-> PresetSeed("medium"),
    pic |-> BlankPic, n_encode |-> 0, n_reconfig |-> 0 ]

\* the two sessions of SpecPair
Sessions == {1, 2}

\* one session of SpecPair before enc_new: its pointer, its memory, its
\* resources, its engine, the caller's result code, the last result returned
\* and the number of calls made on it
SessStart ==
  [ ptr |-> NULL, mem |-> NoEncoder, heap |-> HeapStart, engine |-> EngineStart,
    rc |-> 0, op |-> "none", ret |-> 0, s |-> NoSlice, n |-> 0 ]

\* sess: the sessions as the interleaving leaves them; solo: each session as
\* its own calls alone leave it; last: the session of the last call
PairStart ==
  [ sess |-> [ x \in Sessions |-> SessStart ],
    solo |-> [ x \in Sessions |-> SessStart ],
    last |-> 0 ]

\* the threads of SpecRace
Threads == {1, 2}

\* SpecRace starts after enc_new: e is the session's memory; pc, planes: where
\* each thread's enc_encode call is and the planes it was given; got, called:
\* the picture each call gave the engine; pending: the flag was set and no
\* IDR frame was requested since; overlap: some call or write of the flag
\* began while a call was in flight; n: encode calls begun
RaceStart ==
  [ e |-> NoEncoder,
    pc |-> [ t \in Threads |-> "idle" ],
    planes |-> [ t \in Threads |-> <<NULL, NULL, NULL>> ],
    got |-> [ t \in Threads |-> BlankPic ],
    called |-> [ t \in Threads |-> FALSE ],
    pending |-> FALSE, overlap |-> FALSE, n |-> 0 ]

NoCall ==
  [ op |-> "none", trace |-> << >>, pre |-> NoEncoder, rc_in |-> 0,
    rc_written |-> FALSE, ret |-> 0, s |-> NoSlice, e |-> NULL,
    target |-> 0, planes |-> <<NULL, NULL, NULL>>, preset |-> "" ]

Init ==
  /\ session = NULL
  /\ mem = NoEncoder
  /\ heap = [ e |-> "none", preset |-> "live", pic |-> "none", h |-> "none" ]
  /\ engine = [ param |-> PresetSeed("medium"), pushed |-> PresetSeed("medium"),
                pic |-> BlankPic, n_encode |-> 0, n_reconfig |-> 0 ]
  /\ rc = 0
  /\ stream = PresetSeed("medium")
  /\ call = NoCall
  /\ units = {}
  /\ pair = PairStart
  /\ race = RaceStart

\* the session can be operated on: opened and not closed
IsOpen == session = EPtr /\ heap.e = "live"

\* the caller's result-code variable after a call
RcAfter(rc_in, r) == IF r.rc_written THEN r.rc_value ELSE rc_in

\* e = enc_new(param, preset, &rc)
New ==
  /\ call.op = "none"
  /\ \E param \in StreamParams, preset \in Presets, garbage \in GarbageInts,
        profile_ret \in StatusRets, alloc_ret \in StatusRets, h \in {NULL, HPtr} :
       LET r == enc_new(param, preset, garbage, profile_ret, alloc_ret, h)
       IN  /\ session' = r.e
           /\ mem' = r.mem
           /\ heap' = HeapAfter(heap, r.trace)
           /\ engine' = IF r.e = NULL THEN engine
                        ELSE [engine EXCEPT !.param = r.mem.param]
           /\ rc' = RcAfter(rc, r)
           /\ stream' = param
           /\ call' = [ NoCall EXCEPT !.op = "enc_new", !.trace = r.trace,
                          !.rc_in = rc, !.rc_written = r.rc_written,
                          !.e = r.e, !.preset = preset ]
           /\ UNCHANGED << units, pair, race >>

\* the caller sets e->force_key_frame
SetForceKeyFrame ==
  /\ IsOpen
  /\ mem' = [mem EXCEPT !.force_key_frame = 1]
  /\ call' = [ NoCall EXCEPT !.op = "force_key_frame", !.pre = mem, !.rc_in = rc ]
  /\ UNCHANGED << session, heap, engine, rc, stream, units, pair, race >>

\* apply_target_bitrate(e, target_bitrate)
SetBitrate ==
  /\ IsOpen
  /\ \E target_bitrate \in TargetBitrates, reconfig_ret \in ReconfigRets :
       LET r == apply_target_bitrate(mem, target_bitrate, reconfig_ret)
           n == Calls(r.trace, "x264_encoder_reconfig")
       IN  /\ engine.n_reconfig + n <= MaxReconfigs
           /\ mem' = r.mem
           /\ heap' = HeapAfter(heap, r.trace)
           /\ engine' = IF n = 0 THEN engine
                        ELSE [engine EXCEPT
                                !.n_reconfig = @ + n,
                                !.pushed = r.mem.param,
                                !.param = IF reconfig_ret < 0 THEN @
                                          ELSE r.mem.param]
           /\ call' = [ NoCall EXCEPT !.op = "apply_target_bitrate",
                          !.trace = r.trace, !.pre = mem, !.rc_in = rc,
                          !.ret = r.ret, !.target = target_bitrate ]
           /\ UNCHANGED << session, rc, stream, units, pair, race >>

\* s = enc_encode(e, y, cb, cr, &rc); the caller may pass a fresh result-code
\* variable or the one of the call before
Encode ==
  /\ IsOpen
  /\ engine.n_encode < MaxEncodes
  /\ \E f \in Frames, frame_size \in FrameSizes, fresh \in BOOLEAN :
       LET rc_in == IF fresh THEN 0 ELSE rc
           r == enc_encode(mem, f.y, f.cb, f.cr, frame_size,
                           NalPayload(engine.n_encode + 1))
       IN  /\ mem' = r.mem
           /\ heap' = HeapAfter(heap, r.trace)
           /\ engine' = [engine EXCEPT
                           !.n_encode = @ + Calls(r.trace, "x264_encoder_encode"),
                           !.pic = r.pic]
           /\ rc' = RcAfter(rc_in, r)
           /\ call' = [ NoCall EXCEPT !.op = "enc_encode", !.trace = r.trace,
                          !.pre = mem, !.rc_in = rc_in,
                          !.rc_written = r.rc_written, !.s = r.s,
                          !.planes = <<f.y, f.cb, f.cr>> ]
           /\ units' = IF r.s.data_len > 0 THEN units \cup {r.s.data} ELSE units
           /\ UNCHANGED << session, stream, pair, race >>

\* enc_close(e, &rc)
Close ==
  /\ IsOpen
  /\ LET r == enc_close(mem)
     IN  /\ mem' = r.mem
         /\ heap' = HeapAfter(heap, r.trace)
         /\ call' = [ NoCall EXCEPT !.op = "enc_close", !.trace = r.trace,
                        !.pre = mem, !.rc_in = rc ]
         /\ UNCHANGED << session, engine, rc, stream, units, pair, race >>

Next == New \/ SetForceKeyFrame \/ SetBitrate \/ Encode \/ Close

Spec == Init /\ [][Next]_vars

----------------------------------------------------------------------------
(* Two sessions: the calls of each, in any interleaving *)

\* calls on one session of SpecPair after its enc_new
MaxPairCalls == 2

SpecVars == << session, mem, heap, engine, rc, stream, call, units >>

PairParams ==
  { p \in StreamParams : p.i_csp = X264_CSP_I420 /\ p.i_width = 640 }
PairPresets == {"veryfast", "turbo-ultra"}
PairGarbage == {0, 1}
PairFrameSizes == {-1, 7}
PairTargets == {0, 3000000}
PairReconfigRets == {-1, 0}

SessPtr(x) == <<"Encoder", x>>
SessHandle(x) == <<"x264_t", x>>
SessFrame(x) == CHOOSE f \in Frames : f.y = <<"y", x>>
SessOpen(ss) == ss.ptr # NULL /\ ss.heap.e = "live"

\* session x after enc_new
SessNew(ss, x, param, preset, garbage, h) ==
  LET r == enc_new(param, preset, garbage, 0, 0, h)
  IN  [ ss EXCEPT
          !.ptr = IF r.e = NULL THEN NULL ELSE SessPtr(x),
          !.mem = r.mem,
          !.heap = HeapAfter(ss.heap, r.trace),
          !.engine = IF r.e = NULL THEN @ ELSE [@ EXCEPT !.param = r.mem.param],
          !.rc = RcAfter(ss.rc, r),
          !.op = "enc_new" ]

\* a session after the caller set its force_key_frame
SessForce(ss) ==
  [ ss EXCEPT !.mem.force_key_frame = 1, !.op = "force_key_frame",
              !.ret = 0, !.s = NoSlice, !.n = @ + 1 ]

\* a session after apply_target_bitrate
SessSetBitrate(ss, target_bitrate, reconfig_ret) ==
  LET r == apply_target_bitrate(ss.mem, target_bitrate, reconfig_ret)
      n == Calls(r.trace, "x264_encoder_reconfig")
  IN  [ ss EXCEPT
          !.mem = r.mem,
          !.heap = HeapAfter(ss.heap, r.trace),
          !.engine = IF n = 0 THEN @
                     ELSE [@ EXCEPT !.n_reconfig = @ + n,
                                    !.pushed = r.mem.param,
                                    !.param = IF reconfig_ret < 0 THEN @
                                              ELSE r.mem.param],
          !.op = "apply_target_bitrate", !.ret = r.ret, !.s = NoSlice,
          !.n = @ + 1 ]

\* a session after enc_encode
SessEncode(ss, f, frame_size) ==
  LET r == enc_encode(ss.mem, f.y, f.cb, f.cr, frame_size,
                      NalPayload(ss.engine.n_encode + 1))
  IN  [ ss EXCEPT
          !.mem = r.mem,
          !.heap = HeapAfter(ss.heap, r.trace),
          !.engine = [@ EXCEPT
                        !.n_encode = @ + Calls(r.trace, "x264_encoder_encode"),
                        !.pic = r.pic],
          !.rc = RcAfter(ss.rc, r),
          !.op = "enc_encode", !.ret = 0, !.s = r.s, !.n = @ + 1 ]

\* a session after enc_close
SessClose(ss) ==
  LET r == enc_close(ss.mem)
  IN  [ ss EXCEPT !.mem = r.mem, !.heap = HeapAfter(ss.heap, r.trace),
                  !.op = "enc_close", !.ret = 0, !.s = NoSlice ]

\* mutant of StoreSession: force_key_frame is one variable of the file,
\* shared by all sessions
StoreSession_SharedFlag(all, x, ss) ==
  [ y \in Sessions |->
      IF y = x THEN ss
      ELSE [ all[y] EXCEPT !.mem.force_key_frame = ss.mem.force_key_frame ] ]

\* what a call on session x writes: the file has no static or global
\* variable, every write goes through e or the call's own locals
StoreSession(all, x, ss) == [ all EXCEPT ![x] = ss ]

\* a call on session x: after is session x after the call in the
\* interleaving, alone is session x after the same call with the same inputs
\* when only its own calls ran
PairStep(x, after, alone) ==
  /\ pair' = [ sess |-> StoreSession(pair.sess, x, after),
               solo |-> [ pair.solo EXCEPT ![x] = alone ],
               last |-> x ]
  /\ UNCHANGED << SpecVars, race >>

PairNew ==
  \E x \in Sessions, param \in PairParams, preset \in PairPresets,
     garbage \in PairGarbage :
    \E h \in {NULL, SessHandle(x)} :
      /\ pair.sess[x].op = "none"
      /\ PairStep(x, SessNew(pair.sess[x], x, param, preset, garbage, h),
                     SessNew(pair.solo[x], x, param, preset, garbage, h))

PairForce ==
  \E x \in Sessions :
    /\ SessOpen(pair.sess[x])
    /\ pair.sess[x].n < MaxPairCalls
    /\ PairStep(x, SessForce(pair.sess[x]), SessForce(pair.solo[x]))

PairSetBitrate ==
  \E x \in Sessions, target_bitrate \in PairTargets,
     reconfig_ret \in PairReconfigRets :
    /\ SessOpen(pair.sess[x])
    /\ pair.sess[x].n < MaxPairCalls
    /\ PairStep(x, SessSetBitrate(pair.sess[x], target_bitrate, reconfig_ret),
                   SessSetBitrate(pair.solo[x], target_bitrate, reconfig_ret))

PairEncode ==
  \E x \in Sessions, frame_size \in PairFrameSizes :
    /\ SessOpen(pair.sess[x])
    /\ pair.sess[x].n < MaxPairCalls
    /\ PairStep(x, SessEncode(pair.sess[x], SessFrame(x), frame_size),
                   SessEncode(pair.solo[x], SessFrame(x), frame_size))

PairClose ==
  \E x \in Sessions :
    /\ SessOpen(pair.sess[x])
    /\ PairStep(x, SessClose(pair.sess[x]), SessClose(pair.solo[x]))

NextPair == PairNew \/ PairForce \/ PairSetBitrate \/ PairEncode \/ PairClose

SpecPair == Init /\ [][NextPair]_vars

----------------------------------------------------------------------------
(* One session, calls not serialized: enc_encode statement by statement *)

\* enc_encode calls begun in SpecRace
MaxRaceCalls == 2

\* mutant of BindPlane: every plane is written to plane[0]
BindPlane_WrongSlot(e, i, p) == [ e EXCEPT !.pic_in.plane[1] = p ]

\* lines 103-105: e->pic_in.img.plane[i - 1] = p
BindPlane(e, i, p) == [ e EXCEPT !.pic_in.plane[i] = p ]

\* lines 106-110
DecideType(e) == [ e EXCEPT !.pic_in.i_type = FrameType(e.force_key_frame) ]

\* line 113
ClearFlag(e) == [ e EXCEPT !.force_key_frame = 0 ]

\* the statement after each statement of enc_encode
NextPc(pc) ==
  CASE pc = "bind1" -> "bind2"
    [] pc = "bind2" -> "bind3"
    [] pc = "bind3" -> "type"
    [] pc = "type" -> "call"
    [] pc = "call" -> "clear"
    [] pc = "clear" -> "idle"

InFlight == \E t \in Threads : race.pc[t] # "idle"

\* the session as a successful enc_new leaves it, no call begun
InitRace ==
  /\ session = NULL
  /\ mem = NoEncoder
  /\ heap = HeapStart
  /\ engine = EngineStart
  /\ rc = 0
  /\ stream = PresetSeed("medium")
  /\ call = NoCall
  /\ units = {}
  /\ pair = PairStart
  /\ \E param \in PairParams, garbage \in GarbageInts :
       race = [ RaceStart EXCEPT
                  !.e = enc_new(param, "veryfast", garbage, 0, 0, HPtr).mem ]

RaceStep(r) == race' = r /\ UNCHANGED << SpecVars, pair >>

\* thread t enters enc_encode with the planes of its own frame
RaceBegin ==
  \E t \in Threads :
    /\ race.pc[t] = "idle"
    /\ race.n < MaxRaceCalls
    /\ LET f == SessFrame(t)
       IN  RaceStep([ race EXCEPT
                        !.pc[t] = "bind1",
                        !.planes[t] = <<f.y, f.cb, f.cr>>,
                        !.called[t] = FALSE,
                        !.got[t] = BlankPic,
                        !.overlap = @ \/ InFlight,
                        !.n = @ + 1 ])

RaceBind ==
  \E t \in Threads, i \in 1..3 :
    /\ race.pc[t] = <<"bind1", "bind2", "bind3">>[i]
    /\ RaceStep([ race EXCEPT
                    !.e = BindPlane(race.e, i, race.planes[t][i]),
                    !.pc[t] = NextPc(@) ])

RaceType ==
  \E t \in Threads :
    /\ race.pc[t] = "type"
    /\ RaceStep([ race EXCEPT !.e = DecideType(race.e), !.pc[t] = NextPc(@) ])

\* line 112: the engine is given e->pic_in as it is now
RaceCall ==
  \E t \in Threads :
    /\ race.pc[t] = "call"
    /\ RaceStep([ race EXCEPT
                    !.got[t] = race.e.pic_in,
                    !.called[t] = TRUE,
                    !.pending = @ /\ race.e.pic_in.i_type # X264_TYPE_IDR,
                    !.pc[t] = NextPc(@) ])

RaceClear ==
  \E t \in Threads :
    /\ race.pc[t] = "clear"
    /\ RaceStep([ race EXCEPT !.e = ClearFlag(race.e), !.pc[t] = NextPc(@) ])

\* the caller sets e->force_key_frame, whatever the calls in flight
RaceSetFlag ==
  RaceStep([ race EXCEPT
                !.e.force_key_frame = 1,
                !.pending = TRUE,
                !.overlap = @ \/ InFlight ])

NextRace ==
  RaceBegin \/ RaceBind \/ RaceType \/ RaceCall \/ RaceClear \/ RaceSetFlag

SpecRace == InitRace /\ [][NextRace]_vars

----------------------------------------------------------------------------
(* Observations on the last call *)

\* what the engine's entry point fn returned in the last call (fn called once)
EngineRet(fn) ==
  LET i == CHOOSE j \in 1..Len(call.trace) : call.trace[j].fn = fn
  IN  call.trace[i].ret

EncodeReturned == call.op = "enc_encode"
EncodeFailed == EncodeReturned /\ EngineRet("x264_encoder_encode") <= 0
SetBitrateReturned == call.op = "apply_target_bitrate"
Reconfigured == SetBitrateReturned /\ Calls(call.trace, "x264_encoder_reconfig") > 0
ReconfigRejected == Reconfigured /\ EngineRet("x264_encoder_reconfig") < 0
OpenFailed == call.op = "enc_new" /\ call.e = NULL
OpenSucceeded == call.op = "enc_new" /\ call.e # NULL

\* bits/second to kbit/s, integer division (the quotient of the magnitudes,
\* with the sign of the request)
Kbits(bits) == IF bits >= 0 THEN bits \div 1000 ELSE -((-bits) \div 1000)

----------------------------------------------------------------------------
(* Claims *)

\* C1: for every encode call the frame type the engine is asked for is IDR if
\* and only if force_key_frame was set when the call started, AUTO otherwise,
\* and force_key_frame is false when the call returns, also when the call
\* fails; an encode call that directly follows an encode call asks for AUTO.
C1_ForceKeyFrameOneShot ==
  /\ [](EncodeReturned =>
          /\ call.pre.force_key_frame # 0 => engine.pic.i_type = X264_TYPE_IDR
          /\ call.pre.force_key_frame = 0 => engine.pic.i_type = X264_TYPE_AUTO
          /\ mem.force_key_frame = 0)
  /\ [][(EncodeReturned /\ call'.op = "enc_encode")
          => engine'.pic.i_type = X264_TYPE_AUTO]_vars

\* C1 witness: the flag was set, the encode call failed, IDR was requested
\* and the flag reads false.
C1_Witness ==
  /\ EncodeFailed
  /\ call.pre.force_key_frame = 1
  /\ engine.pic.i_type = X264_TYPE_IDR
  /\ mem.force_key_frame = 0

\* C2: in the session a successful open returns, force_key_frame is false.
C2_FlagFalseAfterOpen ==
  OpenSucceeded => mem.force_key_frame = 0

\* C3: a set-bitrate request whose converted value equals the recorded
\* bitrate or is at most 1 returns success, leaves the whole session
\* unchanged and does not call x264_encoder_reconfig.
C3_NoopBitrate ==
  (/\ SetBitrateReturned
   /\ \/ Kbits(call.target) = call.pre.param.i_bitrate
      \/ Kbits(call.target) <= 1)
  => /\ call.ret = 0
     /\ mem = call.pre
     /\ Calls(call.trace, "x264_encoder_reconfig") = 0

\* C3 witness: a request that equals the recorded bitrate only after the
\* division by 1000 was answered as a no-op.
C3_Witness ==
  /\ SetBitrateReturned
  /\ call.target = 2000999
  /\ call.pre.param.i_bitrate = 2000
  /\ call.ret = 0
  /\ mem = call.pre

\* C4: when open fails no session is returned and nothing acquired is left
\* live: the session memory and the preset string are released, the picture
\* storage is released if it was allocated, no engine handle is open, and
\* nothing was released twice.
C4_NoLeakOnOpenFailure ==
  OpenFailed =>
    /\ session = NULL
    /\ heap.e = "released"
    /\ heap.preset = "released"
    /\ heap.pic \in {"none", "released"}
    /\ heap.h \in {"none", "released"}

\* C4 witness: open failed at the last step, the engine open, after the
\* picture storage had been allocated.
C4_Witness ==
  /\ OpenFailed
  /\ rc = ERR_OPEN_ENGINE
  /\ heap.pic = "released"
  /\ heap.e = "released"

\* C5: the six reason codes are pairwise distinct, and a set-bitrate call
\* whose reconfiguration the engine rejects reports BitrateReconfigFailed.
C5_DistinctReasonCodes ==
  /\ Cardinality({ ERR_DEFAULT_PRESET, ERR_APPLY_PROFILE, ERR_ALLOC_PICTURE,
                   ERR_OPEN_ENGINE, ERR_ENCODE, ERR_BITRATE_RECONFIG }) = 6
  /\ ReconfigRejected => call.ret = ERR_BITRATE_RECONFIG

\* C6: a set-bitrate request that is not a no-op records bitrate k, VBV max
\* bitrate k + 5 and VBV buffer size equal to the VBV max bitrate, and pushes
\* that configuration to the engine exactly once.
C6_VbvFromBitrate ==
  (/\ SetBitrateReturned
   /\ Kbits(call.target) # call.pre.param.i_bitrate
   /\ Kbits(call.target) > 1)
  => /\ mem.param.i_bitrate = Kbits(call.target)
     /\ mem.param.i_vbv_max_bitrate = Kbits(call.target) + 5
     /\ mem.param.i_vbv_buffer_size = mem.param.i_vbv_max_bitrate
     /\ Calls(call.trace, "x264_encoder_reconfig") = 1
     /\ engine.pushed = mem.param

\* C7: after the engine rejected a reconfiguration the session records the
\* attempted bitrate and VBV limits (those pushed to the engine), not the
\* ones from before the call, the engine keeps the configuration it had, and
\* the session is still open with its engine handle.
C7_NoRollback ==
  ReconfigRejected =>
    /\ mem.param.i_bitrate = Kbits(call.target)
    /\ mem.param.i_bitrate # call.pre.param.i_bitrate
    /\ mem.param = engine.pushed
    /\ mem.param.i_vbv_buffer_size = mem.param.i_vbv_max_bitrate
    /\ mem.param.i_vbv_max_bitrate > mem.param.i_bitrate
    /\ IsOpen
    /\ heap.h = "live"
    /\ mem.h = call.pre.h

\* C7 witness: a rejected request for 3000 kbit/s on a session the engine
\* runs at 2000 kbit/s.
C7_Witness ==
  /\ ReconfigRejected
  /\ mem.param.i_bitrate = 3000
  /\ engine.param.i_bitrate = 2000
  /\ call.pre.param.i_bitrate = 2000

\* C8: an encode call calls x264_encoder_encode exactly once; it writes
\* ERR_ENCODE to the result code if and only if the engine returned a frame
\* size of zero or less, and then the unit's length is zero or less; on a
\* positive frame size the result code is left as it was, the unit's length
\* is the frame size and its data is the first NAL's payload.
C8_EncodeResult ==
  EncodeReturned =>
    /\ Calls(call.trace, "x264_encoder_encode") = 1
    /\ call.rc_written <=> EngineRet("x264_encoder_encode") <= 0
    /\ call.rc_written => rc = ERR_ENCODE /\ call.s.data_len <= 0
    /\ EngineRet("x264_encoder_encode") > 0 =>
         /\ rc = call.rc_in
         /\ call.s.data_len = EngineRet("x264_encoder_encode")
         /\ call.s.data = NalPayload(engine.n_encode)

\* C8 witness: the engine returned a frame size of zero and the call
\* reported ERR_ENCODE.
C8_Witness ==
  /\ EncodeReturned
  /\ EngineRet("x264_encoder_encode") = 0
  /\ rc = ERR_ENCODE
  /\ call.s.data_len = 0

\* C9: after a failed encode call the session is still open, its engine
\* handle is the same and live, its configuration is unchanged, and another
\* encode call can be made.
C9_UsableAfterEncodeFailure ==
  EncodeFailed =>
    /\ IsOpen
    /\ heap.h = "live"
    /\ mem.h = call.pre.h
    /\ mem.param = call.pre.param
    /\ engine.n_encode < MaxEncodes => ENABLED Encode

\* C9 witness: an encode call succeeded on a session on which an earlier
\* encode call had failed (the result code passed in still held ERR_ENCODE).
C9_Witness ==
  /\ EncodeReturned
  /\ call.rc_in = ERR_ENCODE
  /\ call.s.data_len > 0
  /\ engine.n_encode = 2

\* the fields of a configuration that are not rate-control fields
NonRateControl(p) ==
  [ p EXCEPT !.i_bitrate = 0, !.f_rate_tolerance = "", !.i_vbv_max_bitrate = 0,
             !.i_vbv_buffer_size = 0, !.f_vbv_buffer_init = "" ]

\* C10: while the session is open its pixel format, width and height are
\* those given at open; encode changes no field of the configuration, and
\* set-bitrate changes rate-control fields only.
C10_GeometryFixed ==
  /\ IsOpen =>
       /\ mem.param.i_csp = stream.i_csp
       /\ mem.param.i_width = stream.i_width
       /\ mem.param.i_height = stream.i_height
  /\ EncodeReturned => mem.param = call.pre.param
  /\ SetBitrateReturned => NonRateControl(mem.param) = NonRateControl(call.pre.param)

\* C10 witness: a set-bitrate call changed the recorded bitrate of a 640x480
\* session, and the geometry is still the one given at open.
C10_Witness ==
  /\ IsOpen
  /\ SetBitrateReturned
  /\ mem.param.i_bitrate # call.pre.param.i_bitrate
  /\ stream.i_width = 640
  /\ mem.param.i_width = 640
  /\ mem.param.i_height = 480

\* C11: in the session a successful open returns, pixel format, width,
\* height, frame-rate numerator, key-frame interval, target bitrate and VBV
\* limits are the caller's, the frame-rate denominator is 1, the rate-control
\* mode is ABR and repeat-headers and Annex-B are set, whatever the preset
\* seeded.
C11_OpenedConfiguration ==
  OpenSucceeded =>
    /\ mem.param.i_csp = stream.i_csp
    /\ mem.param.i_width = stream.i_width
    /\ mem.param.i_height = stream.i_height
    /\ mem.param.i_fps_num = stream.i_fps_num
    /\ mem.param.i_keyint_max = stream.i_keyint_max
    /\ mem.param.i_bitrate = stream.i_bitrate
    /\ mem.param.i_vbv_max_bitrate = stream.i_vbv_max_bitrate
    /\ mem.param.i_vbv_buffer_size = stream.i_vbv_buffer_size
    /\ mem.param.i_fps_den = 1
    /\ mem.param.i_rc_method = X264_RC_ABR
    /\ mem.param.b_repeat_headers = 1
    /\ mem.param.b_annexb = 1

\* C11 witness: open succeeded with a preset that seeds another frame-rate
\* denominator, another rate-control mode and cleared streaming flags.
C11_Witness ==
  /\ OpenSucceeded
  /\ call.preset = "veryfast"
  /\ PresetSeed(call.preset).b_annexb = 0
  /\ PresetSeed(call.preset).i_fps_den # 1
  /\ PresetSeed(call.preset).i_rc_method # X264_RC_ABR
  /\ mem.param.b_annexb = 1
  /\ mem.param.i_width = 1280

\* the steps of open, in the order the claim gives, with each step's code
OpenSteps ==
  << "x264_param_default_preset", "x264_param_apply_profile",
     "x264_picture_alloc", "x264_encoder_open" >>
OpenStepCode ==
  << ERR_DEFAULT_PRESET, ERR_APPLY_PROFILE, ERR_ALLOC_PICTURE, ERR_OPEN_ENGINE >>
IsOpenStep(ev) == \E i \in 1..Len(OpenSteps) : OpenSteps[i] = ev.fn
StepOk(ev) == IF ev.fn = "x264_encoder_open" THEN ev.ret # 0 ELSE ev.ret >= 0

\* the steps the last open ran are the first n of OpenSteps in order, all
\* but the last succeeded, and open failed exactly when the last one failed,
\* with that step's code
OpenRanInOrder ==
  LET ran == SelectSeq(call.trace, IsOpenStep)
      n == Len(ran)
  IN  /\ n \in 1..Len(OpenSteps)
      /\ \A i \in 1..n : ran[i].fn = OpenSteps[i]
      /\ \A i \in 1..(n - 1) : StepOk(ran[i])
      /\ OpenFailed <=> ~StepOk(ran[n])
      /\ OpenFailed => rc = OpenStepCode[n]
      /\ OpenSucceeded => n = Len(OpenSteps)

ConfigurationTimeFailure ==
  OpenFailed /\ rc \in {ERR_DEFAULT_PRESET, ERR_APPLY_PROFILE}

\* C12 as stated: the steps of open run in order and stop at the first
\* failure, and when open fails with InvalidPreset or ProfileRejected no
\* resource has been allocated before the failure.
C12_NoResourceBeforeConfigFailure ==
  call.op = "enc_new" =>
    /\ OpenRanInOrder
    /\ ConfigurationTimeFailure =>
         /\ Calls(call.trace, "malloc") = 0
         /\ Calls(call.trace, "x264_picture_alloc") = 0
         /\ Calls(call.trace, "x264_encoder_open") = 0

\* C12 amended: the steps of open run in order and stop at the first failure;
\* when open fails with InvalidPreset or ProfileRejected the session memory
\* has been allocated (and is released again) but neither the picture
\* allocator nor the engine open has been invoked; the engine is opened only
\* after the profile was applied and the picture allocated, both with success.
C12_OpenStepOrder ==
  call.op = "enc_new" =>
    /\ OpenRanInOrder
    /\ ConfigurationTimeFailure =>
         /\ Calls(call.trace, "malloc") = 1
         /\ heap.e = "released"
         /\ Calls(call.trace, "x264_picture_alloc") = 0
         /\ Calls(call.trace, "x264_encoder_open") = 0
         /\ heap.pic = "none"
         /\ heap.h = "none"
    /\ Calls(call.trace, "x264_encoder_open") > 0 =>
         \E i, j, k \in 1..Len(call.trace) :
           /\ i < j /\ j < k
           /\ call.trace[i] = Ev("x264_param_apply_profile", 0)
           /\ call.trace[j] = Ev("x264_picture_alloc", 0)
           /\ call.trace[k].fn = "x264_encoder_open"

\* C12 witness: open failed with ProfileRejected; the session memory was
\* allocated and released, the picture allocator was not called.
C12_Witness ==
  /\ OpenFailed
  /\ rc = ERR_APPLY_PROFILE
  /\ heap.e = "released"
  /\ heap.pic = "none"

\* C13: close calls x264_encoder_close once and frees the session memory
\* once; after open, any encode and set-bitrate calls and one close, the
\* session memory, the preset string, the picture storage and the engine
\* handle have all been released, and at no time has one been released twice
\* or used after its release.
C13_CloseReleasesAll ==
  /\ call.op = "enc_close" =>
       /\ Calls(call.trace, "x264_encoder_close") = 1
       /\ Calls(call.trace, "free(e)") = 1
       /\ heap.e = "released"
       /\ heap.h = "released"
       /\ heap.preset = "released"
       /\ heap.pic = "released"
  /\ \A r \in DOMAIN heap : heap[r] # "invalid"

\* C13 witness: a session was closed after an encode call had failed and a
\* reconfiguration had been rejected.
C13_Witness ==
  /\ call.op = "enc_close"
  /\ rc = ERR_ENCODE
  /\ engine.n_encode >= 1
  /\ engine.n_reconfig >= 1
  /\ engine.pushed.i_bitrate # engine.param.i_bitrate
  /\ heap.e = "released"
  /\ heap.h = "released"

\* the bitrate the session records differs from the one the engine runs at
BitrateDiverged == IsOpen /\ mem.param.i_bitrate # engine.param.i_bitrate

\* C17 as stated: whenever the engine has just rejected a set-bitrate request,
\* the recorded bitrate differs from the one the engine runs at. (Refuted: a
\* rejected request for 3000 kbit/s followed by a rejected request for the
\* 2000 kbit/s the engine still runs at leaves both at 2000.)
C17_RejectionAlwaysDiverges == ReconfigRejected => BitrateDiverged

\* C17: a set-bitrate request that directly follows a rejected one and has the
\* same converted value returns success without calling x264_encoder_reconfig
\* and changes neither the session nor the engine; after a rejected request
\* the recorded bitrate differs from the engine's exactly when the requested
\* value is not the one the engine runs at; and once the recorded bitrate
\* differs from the engine's, it keeps differing as long as the session is
\* open and no request with another converted value greater than 1 is made.
C17_RejectedRequestSticks ==
  /\ [](ReconfigRejected =>
          /\ mem.param.i_bitrate = Kbits(call.target)
          /\ (BitrateDiverged <=> Kbits(call.target) # engine.param.i_bitrate))
  /\ [][(/\ ReconfigRejected
         /\ call'.op = "apply_target_bitrate"
         /\ Kbits(call'.target) = Kbits(call.target))
        => /\ call'.ret = 0
           /\ Calls(call'.trace, "x264_encoder_reconfig") = 0
           /\ mem' = mem
           /\ engine' = engine]_vars
  /\ [][(/\ BitrateDiverged
         /\ IsOpen'
         /\ ~(/\ call'.op = "apply_target_bitrate"
              /\ Kbits(call'.target) # mem.param.i_bitrate
              /\ Kbits(call'.target) > 1))
        => BitrateDiverged']_vars

\* C17 witness: the only reconfiguration the engine saw, for 3000 kbit/s, was
\* rejected, and a further request of 3000000 bits/second was answered with
\* success without reaching the engine, which still runs at 2000 kbit/s.
C17_Witness ==
  /\ SetBitrateReturned
  /\ call.target = 3000000
  /\ call.ret = 0
  /\ call.trace = << >>
  /\ engine.n_reconfig = 1
  /\ mem.param.i_bitrate = 3000
  /\ engine.param.i_bitrate = 2000

\* p points into the storage x264_picture_alloc allocated
InPictureStorage(p) == p[1] = "picture"

\* C18: the engine's encode step is given exactly the three plane pointers of
\* the encode call that makes it, none of them into the picture storage; the
\* plane pointers a successful open leaves in the frame descriptor point into
\* picture storage that open has already released; that storage is released
\* once, and close does not release it again.
C18_PlanesRebound ==
  /\ OpenSucceeded =>
       /\ \A i \in 1..3 : InPictureStorage(mem.pic_in.plane[i])
       /\ heap.pic = "released"
  /\ EncodeReturned =>
       /\ engine.pic.plane = call.planes
       /\ mem.pic_in.plane = call.planes
       /\ \A i \in 1..3 : ~InPictureStorage(engine.pic.plane[i])
  /\ call.op = "enc_close" =>
       /\ Calls(call.trace, "x264_picture_clean") = 0
       /\ heap.pic = "released"
  /\ heap.pic # "invalid"

\* C18 witness: the first encode call of a session found the descriptor's
\* planes pointing into the released picture storage and handed the engine
\* the caller's planes.
C18_Witness ==
  /\ EncodeReturned
  /\ \A i \in 1..3 : InPictureStorage(call.pre.pic_in.plane[i])
  /\ heap.pic = "released"
  /\ engine.pic.plane = call.planes
  /\ engine.n_encode = 1

\* C19: on every path of open, successful or failing at any step, the preset
\* string is freed exactly once, after the one call that reads it; it is
\* never freed twice and never read after it was freed.
C19_PresetReleasedOnce ==
  /\ call.op = "enc_new" =>
       /\ Calls(call.trace, "free(preset)") = 1
       /\ Calls(call.trace, "x264_param_default_preset") = 1
       /\ \A i, j \in 1..Len(call.trace) :
            (/\ call.trace[i].fn = "x264_param_default_preset"
             /\ call.trace[j].fn = "free(preset)") => i < j
  /\ call.op # "none" => heap.preset = "released"
  /\ heap.preset # "invalid"

\* C19 witness: open failed at its first step on an unrecognized preset name,
\* and the name was released.
C19_Witness ==
  /\ OpenFailed
  /\ call.preset = "turbo-ultra"
  /\ rc = ERR_DEFAULT_PRESET
  /\ heap.preset = "released"

\* the last call was an open or an encode, and it succeeded
RcCallSucceeded ==
  \/ OpenSucceeded
  \/ EncodeReturned /\ call.s.data_len > 0
RcCallFailed ==
  \/ OpenFailed
  \/ EncodeReturned /\ call.s.data_len <= 0

\* C20: open and encode write the caller's result code when they fail and
\* leave it as it was passed in when they succeed; so an encode call that
\* succeeds directly after a failed one, given the same result-code variable
\* without a reset, returns a unit of positive length with the variable still
\* holding ERR_ENCODE.
C20_ResultCodeOnlyOnFailure ==
  /\ [](RcCallSucceeded => ~call.rc_written /\ rc = call.rc_in)
  /\ [](RcCallFailed => call.rc_written /\ rc < 0)
  /\ [][(/\ EncodeFailed
         /\ call'.op = "enc_encode"
         /\ call'.rc_in = rc
         /\ call'.s.data_len > 0)
        => rc' = ERR_ENCODE]_vars

\* C20 witness: an encode call returned a unit of positive length, did not
\* write the result code, and the result code reads ERR_ENCODE.
C20_Witness ==
  /\ EncodeReturned
  /\ call.s.data_len > 0
  /\ call.s.data # NULL
  /\ ~call.rc_written
  /\ rc = ERR_ENCODE

\* u points into the engine's output queue as the latest encode invocation
\* left it, and the engine is open: the engine rewrites its queue on every
\* encode invocation
UnitValid(u) == u = NalPayload(engine.n_encode) /\ heap.h = "live"

\* C14: every unit encode returns points into the engine's output queue (it
\* is no copy); it is valid when the encode call returns; every encode call
\* invalidates every unit returned before, so at most one unit is valid at
\* any time; a step that is no encode call and leaves the engine open (a
\* set-bitrate call, a write of the flag) invalidates none.
C14_BorrowedUnit ==
  /\ [](\A u \in units : u[1] = "nal")
  /\ []((EncodeReturned /\ call.s.data_len > 0) =>
          call.s.data \in units /\ UnitValid(call.s.data))
  /\ [](Cardinality({ u \in units : UnitValid(u) }) <= 1)
  /\ [][call'.op = "enc_encode" => \A u \in units : ~UnitValid(u)']_vars
  /\ [][call'.op \in {"apply_target_bitrate", "force_key_frame"} =>
          \A u \in units : UnitValid(u) => UnitValid(u)']_vars

\* C14 witness: two units were returned; after a set-bitrate call that
\* reached the engine the second is still valid and the first is not.
C14_Witness ==
  /\ Reconfigured
  /\ units = { NalPayload(1), NalPayload(2) }
  /\ UnitValid(NalPayload(2))
  /\ ~UnitValid(NalPayload(1))

ForeignPlanes ==
  \E t \in Threads : race.called[t] /\ race.got[t].plane # race.planes[t]

\* a call gave the engine a plane pointer the other call bound
PlanesOfOtherCall ==
  \E t, u \in Threads, i \in 1..3 :
    /\ t # u
    /\ race.called[t]
    /\ race.got[t].plane[i] # race.planes[t][i]
    /\ race.got[t].plane[i] = race.planes[u][i]

\* the flag was set, no frame was requested as IDR since, and the flag reads
\* false again
LostKeyFrame == race.pending /\ race.e.force_key_frame = 0

\* C16: the session has no lock: the engine is given planes other than the
\* calling encode call's, or a force-key-frame request is cleared with no
\* frame requested as IDR, only if a call or a write of the flag began while
\* an encode call on the session was in flight; serialized calls never get
\* there, calls that are not serialized do (the witness).
C16_RaceOnlyWhenConcurrent ==
  (ForeignPlanes \/ LostKeyFrame) => race.overlap

\* C16 witness: both calls have returned; one gave the engine the planes the
\* other call bound, and a force-key-frame request was cleared with no frame
\* requested as IDR.
C16_Witness ==
  /\ PlanesOfOtherCall
  /\ LostKeyFrame
  /\ ~InFlight
  /\ race.overlap

====
